---- MODULE Spec2Model ----
(***************************************************************************)
(* Model of system_monitor.dashboard.SystemDashboard: the bounded          *)
(* temperature history (update_temperature_history), the text graph built  *)
(* from it (create_temperature_graph) and the polling loop (run /          *)
(* create_dashboard).                                                      *)
(*                                                                         *)
(* Python values are modelled as follows.  An optional reading (an int or  *)
(* None) is a sequence of length at most one: <<>> is None, <<t>> is t.    *)
(* A history sample (timestamp, temperature) is the pair <<ts, t>>.  The   *)
(* program writes the timestamp and never reads it (every loop over the    *)
(* history binds it to _), so all timestamps are the one opaque value      *)
(* current_time, and the order of arrival is the order of the sequence.    *)
(* A rich.Text is the structure of the spans appended to it.               *)
(***************************************************************************)
EXTENDS Integers, Sequences, FiniteSets, TLC

\* ---------------------------------------------------------------- bounds
\* largest max_history_points the configuration is given
MaxCap == 2
\* longest history explored when nothing trims it
MaxSamples == 2

\* Config.set is called at most MaxSets times on one Config object
MaxSets == 1

\* the sensors tool prints at most MaxLines lines
MaxLines == 3

\* longest history explored for the tick ruler, which needs ten samples
MaxRulerSamples == 11

\* Temperatures the sensors may report (get_gpu_temp / get_cpu_temp parse
\* unsigned decimal integers).
Temps == {70, 80}

\* (warning, critical) pairs the configuration may hold.  Config.get returns
\* whatever the file holds, so warning < critical is not guaranteed.
Thresholds == {<<70, 80>>, <<75, 85>>, <<80, 70>>}

\* heights and lengths a caller passes to create_temperature_graph
Heights == {0, 1, 3}
Widths == {0, 1, 2}

\* console widths seen by create_dashboard
ConsoleWidths == {40, 100}

Capacities == 0..MaxCap

Series == {"gpu", "cpu"}
TempTypes == {"gpu", "cpu", "net"}

None == <<>>
Readings == {None} \cup {<<t>> : t \in Temps}

\* time.time(): stored in each sample, never read back
current_time == "time"

VARIABLES
    max_history_points,  \* SystemDashboard.max_history_points
    config,              \* the temperature_thresholds section of config._config
    temp_history,        \* SystemDashboard.temp_history
    delivered,           \* ghost: the last max_history_points + 1 non-null
                         \* samples handed to each series
    last_call,           \* the method called last and its arguments
    graph,               \* the Text returned by the method called last (NoGraph
                         \* when it returned None)
    pc,                  \* position of run() / create_dashboard()
    steps,               \* ghost: steps of create_dashboard done this cycle
    gpu_temp,            \* create_dashboard local
    cpu_temp,            \* create_dashboard local
    available_graph_width, \* create_dashboard local
    cpu_temp_graph,      \* create_dashboard local
    gpu_temp_graph,      \* create_dashboard local
    displayed,           \* the graphs of the dashboard handed to Live
    interrupted,         \* ghost: a KeyboardInterrupt has been delivered
    config_data,         \* Config._config
    config_ret,          \* the Config method called last and what it returned
    sensors              \* the output of the last run of the sensors tool

vars == <<max_history_points, config, temp_history, delivered, last_call,
          graph, pc, steps, gpu_temp, cpu_temp, available_graph_width,
          cpu_temp_graph, gpu_temp_graph, displayed, interrupted,
          config_data, config_ret, sensors>>

\* the state no method of the dashboard writes
aside == <<config_data, config_ret, sensors>>

\* ------------------------------------------------------- Python helpers
Min(a, b) == IF a <= b THEN a ELSE b
Max(a, b) == IF a >= b THEN a ELSE b

\* seq[start:] with Python's index normalisation: a negative start counts
\* from the end and is clipped at 0, a start beyond the end gives [].
\* Note that -0 = 0, so seq[-0:] is the whole sequence.
SliceFrom(seq, start) ==
    LET n == Len(seq)
        s == IF start < 0 THEN Max(n + start, 0) ELSE Min(start, n)
    IN  SubSeq(seq, s + 1, n)

RECURSIVE SeqMin(_)
SeqMin(s) == IF Len(s) = 1 THEN s[1] ELSE Min(s[1], SeqMin(Tail(s)))

RECURSIVE SeqMax(_)
SeqMax(s) == IF Len(s) = 1 THEN s[1] ELSE Max(s[1], SeqMax(Tail(s)))

\* f"{num/den:.0f}" for num >= 0, den > 0: round to nearest, ties to even.
RoundHalfEven(num, den) ==
    LET q == num \div den
        r == num % den
    IN  IF 2 * r < den THEN q
        ELSE IF 2 * r > den THEN q + 1
        ELSE IF q % 2 = 0 THEN q ELSE q + 1

\* Config.temperature_warning_threshold / temperature_critical_threshold
temperature_warning_threshold == config[1]
temperature_critical_threshold == config[2]

\* ------------------------------------------ update_temperature_history
\* AppendReading without the "is not None" test: a missing reading is
\* stored as a sample of 0 degrees.
AppendReadingAlways(history, reading) ==
    LET temp == IF reading # None THEN reading[1] ELSE 0
        appended == Append(history, <<current_time, temp>>)
    IN  IF Len(appended) > max_history_points
        THEN SliceFrom(appended, 0 - max_history_points)
        ELSE appended

\* AppendReading that skips a reading equal to the newest sample, which
\* would make a repeated update leave the history alone
AppendReadingOnce(history, reading) ==
    IF reading # None /\ (history = <<>> \/ history[Len(history)][2] # reading[1])
    THEN LET appended == Append(history, <<current_time, reading[1]>>)
         IN  IF Len(appended) > max_history_points
             THEN SliceFrom(appended, 0 - max_history_points)
             ELSE appended
    ELSE history

\* One series' half of update_temperature_history (dashboard.py:92-98 for
\* "gpu", 101-107 for "cpu"): append when the reading is not None, then
\* keep history[-max_history_points:] when the list has grown too long.
AppendReading(history, reading) ==
    IF reading # None
    THEN LET appended == Append(history, <<current_time, reading[1]>>)
         IN  IF Len(appended) > max_history_points
             THEN SliceFrom(appended, 0 - max_history_points)
             ELSE appended
    ELSE history

UpdatedHistory(hist, gpu, cpu) ==
    [hist EXCEPT !["gpu"] = AppendReading(hist["gpu"], gpu),
                 !["cpu"] = AppendReading(hist["cpu"], cpu)]

\* the last n elements of seq, all of it when it is shorter
LastN(seq, n) ==
    IF n >= Len(seq) THEN seq ELSE SubSeq(seq, Len(seq) - n + 1, Len(seq))

\* ghost bookkeeping: the non-null samples handed to a series, of which the
\* last max_history_points + 1 are remembered
Remember(seq, reading) ==
    IF reading # None
    THEN LastN(Append(seq, <<current_time, reading[1]>>), max_history_points + 1)
    ELSE seq

Delivered(d, gpu, cpu) ==
    [d EXCEPT !["gpu"] = Remember(d["gpu"], gpu),
              !["cpu"] = Remember(d["cpu"], cpu)]

\* -------------------------------------------- create_temperature_graph
NoRows == <<>>
NoTimeline == [shown |-> FALSE, ticks |-> <<>>, label |-> 0]
NoSummary == [current |-> 0, color |-> "none", min |-> 0, max |-> 0]

NoDataText ==
    [kind |-> "text", text |-> "No data available", rows |-> NoRows,
     timeline |-> NoTimeline, summary |-> NoSummary]
CollectingText ==
    [kind |-> "text", text |-> "Collecting data...", rows |-> NoRows,
     timeline |-> NoTimeline, summary |-> NoSummary]
NoGraph ==
    [kind |-> "none", text |-> "", rows |-> NoRows,
     timeline |-> NoTimeline, summary |-> NoSummary]

\* CellStyle with exclusive boundaries
CellStyleExclusive(temp) ==
    IF temp > temperature_critical_threshold THEN "red"
    ELSE IF temp > temperature_warning_threshold THEN "yellow"
    ELSE "green"

\* style of a filled cell (dashboard.py:142-147)
CellStyle(temp) ==
    IF temp >= temperature_critical_threshold THEN "red"
    ELSE IF temp >= temperature_warning_threshold THEN "yellow"
    ELSE "green"

\* ReachesThreshold with > for >=
ReachesThresholdStrict(temp, min_temp, temp_range, height, i) ==
    temp * height > min_temp * height + temp_range * (height - i - 1)

\* ReachesThreshold with the rows counted from the bottom
ReachesThresholdUpsideDown(temp, min_temp, temp_range, height, i) ==
    temp * height >= min_temp * height + temp_range * i

\* temp >= min_temp + (temp_range * (height - i - 1) / height), height > 0.
\* Python evaluates the right side in binary floating point; for integer
\* temperatures of this magnitude the comparison agrees with the exact
\* rational one, which is stated here by cross-multiplying with height.
ReachesThreshold(temp, min_temp, temp_range, height, i) ==
    temp * height >= min_temp * height + temp_range * (height - i - 1)

\* one span appended per visible sample (dashboard.py:140-149)
Cell(temp, min_temp, temp_range, height, i) ==
    IF ReachesThreshold(temp, min_temp, temp_range, height, i)
    THEN [ch |-> "block", style |-> CellStyle(temp)]
    ELSE [ch |-> "space", style |-> "none"]

\* style of the "Current" value (dashboard.py:165-170)
SummaryColor(current_temp) ==
    IF current_temp < temperature_warning_threshold THEN "green"
    ELSE IF current_temp < temperature_critical_threshold THEN "yellow"
    ELSE "red"

\* the samples drawn: history[-length:]
Visible(history, length) == SliceFrom(history, 0 - length)

\* dashboard.py:111
HasNoData(hist, temp_type) ==
    temp_type \notin DOMAIN hist \/ hist[temp_type] = <<>>

\* TooShort with the bound off by one
TooShortOffByOne(history) == Len(history) < 1

\* dashboard.py:115
TooShort(history) == Len(history) < 2

\* TempRange without the substitution for a flat series
TempRangeNoSubstitute(min_temp, max_temp) == max_temp - min_temp

\* dashboard.py:124-127
TempRange(min_temp, max_temp) ==
    IF max_temp = min_temp THEN 1 ELSE max_temp - min_temp

\* CurrentTemp reading the oldest sample instead of the newest
CurrentTempOldest(temps) == temps[1]

\* dashboard.py:164
CurrentTemp(temps) == temps[Len(temps)]

\* Temperatures of the newest sample alone
TemperaturesNewest(history) == <<history[Len(history)][2]>>

\* temps = [temp for _, temp in history] (dashboard.py:119)
Temperatures(history) == [k \in 1..Len(history) |-> history[k][2]]

create_temperature_graph(hist, temp_type, height, length) ==
    IF HasNoData(hist, temp_type)
    THEN NoDataText
    ELSE
    LET history == hist[temp_type] IN
    IF TooShort(history)
    THEN CollectingText
    ELSE
    LET temps == Temperatures(history)
        min_temp == SeqMin(temps)
        max_temp == SeqMax(temps)
        temp_range == TempRange(min_temp, max_temp)
        shown == Visible(history, length)
        Row(i) ==
            [label |-> RoundHalfEven(min_temp * height
                                       + temp_range * (height - i - 1), height),
             cells |-> [c \in 1..Len(shown) |->
                          Cell(shown[c][2], min_temp, temp_range, height, i)]]
        current_temp == CurrentTemp(temps)
    IN  [kind |-> "graph",
         text |-> "",
         rows |-> [r \in 1..height |-> Row(r - 1)],
         timeline |->
            IF Len(history) >= 10
            THEN [shown |-> TRUE,
                  ticks |-> [p \in 1..Min(length, Len(history)) |->
                               IF (p - 1) % 10 = 0 THEN "tick" ELSE "dash"],
                  label |-> Len(history)]
            ELSE NoTimeline,
         summary |-> [current |-> current_temp,
                      color |-> SummaryColor(current_temp),
                      min |-> min_temp,
                      max |-> max_temp]]

\* ------------------------------------------------------------ operations
NoCall ==
    [op |-> "none", gpu_temp |-> None, cpu_temp |-> None,
     temp_type |-> "", height |-> 0, length |-> 0]

UpdateCall(gpu, cpu) ==
    [NoCall EXCEPT !.op = "update", !.gpu_temp = gpu, !.cpu_temp = cpu]

GraphCall(temp_type, height, length) ==
    [NoCall EXCEPT !.op = "graph", !.temp_type = temp_type,
                   !.height = height, !.length = length]

\* ------------------------------------------------------------ exceptions

\* the classes an exception is an instance of
Bases(exc) ==
    CASE exc = "KeyboardInterrupt" -> {"KeyboardInterrupt", "BaseException"}
      [] exc = "CalledProcessError" ->
            {"CalledProcessError", "SubprocessError", "Exception", "BaseException"}
      [] exc = "TimeoutExpired" ->
            {"TimeoutExpired", "SubprocessError", "Exception", "BaseException"}
      [] OTHER -> {exc, "Exception", "BaseException"}

\* "except clause:" handles exc
Catches(clause, exc) == clause \cap Bases(exc) # {}

\* ---------------------------------------------------------------- Config

\* A JSON value is a function from the paths inside it to what is there:
\* "dict" for an object, else the text of a scalar.  A path is a sequence
\* of dict keys; a dict key is a string, kept as the sequence of its pieces,
\* where a piece is "." or a stretch of text without a dot.
Name(text) == <<text>>
Scalar(text) == <<>> :> text
EmptyDict == <<>> :> "dict"
NoneValue == Scalar("None")

\* no Config object: its construction raised
Unbound == <<>>

StartsWith(p, path) ==
    Len(p) >= Len(path) /\ SubSeq(p, 1, Len(path)) = path

\* tree[path], the value stored at path
Sub(tree, path) ==
    LET below == {p \in DOMAIN tree : StartsWith(p, path)}
        inner == {SubSeq(p, Len(path) + 1, Len(p)) : p \in below}
    IN  [q \in inner |-> tree[path \o q]]

\* the keys of the dict at path
Children(tree, path) ==
    {p[Len(path) + 1] :
        p \in {q \in DOMAIN tree : Len(q) = Len(path) + 1 /\ StartsWith(q, path)}}

\* container[k] = value, for the dict key that path ends in
Graft(tree, path, value) ==
    LET kept == {p \in DOMAIN tree : ~StartsWith(p, path)}
        added == {path \o q : q \in DOMAIN value}
    IN  [p \in kept \cup added |->
            IF p \in added THEN value[SubSeq(p, Len(path) + 1, Len(p))]
            ELSE tree[p]]

\* Config.DEFAULT_CONFIG, two of its scalars and one of its sections
DEFAULT_CONFIG ==
    (<<>> :> "dict")
    @@ (<<Name("refresh_rate")>> :> "1.0")
    @@ (<<Name("max_history_points")>> :> "100")
    @@ (<<Name("display")>> :> "dict")
    @@ (<<Name("display"), Name("show_gpu")>> :> "True")
    @@ (<<Name("display"), Name("show_network")>> :> "False")

\* key.split("."): the stretches between the dots, empty ones included
RECURSIVE Split(_)
Split(key) ==
    IF key = <<>> THEN << <<>> >>
    ELSE LET rest == Split(Tail(key)) IN
         IF Head(key) = "." THEN << <<>> >> \o rest
         ELSE << <<Head(key)>> \o Head(rest) >> \o Tail(rest)

\* the except clause of Config.get
GetClause == {"KeyError", "TypeError"}

\* the loop of Config.get: value = value[k] for each k, from value = data[at]
RECURSIVE GetWalk(_, _, _)
GetWalk(data, at, keys) ==
    IF keys = <<>> THEN [error |-> "none", value |-> Sub(data, at)]
    ELSE IF data[at] # "dict" THEN [error |-> "TypeError", value |-> NoneValue]
    ELSE IF at \o <<Head(keys)>> \notin DOMAIN data
         THEN [error |-> "KeyError", value |-> NoneValue]
    ELSE GetWalk(data, at \o <<Head(keys)>>, Tail(keys))

\* Config.get(key, default)
get(data, key, default) ==
    LET walk == GetWalk(data, <<>>, Split(key)) IN
    IF walk.error = "none" THEN [error |-> "none", value |-> walk.value]
    ELSE IF Catches(GetClause, walk.error)
         THEN [error |-> "none", value |-> default]
    ELSE [error |-> walk.error, value |-> NoneValue]

\* the body of Config.set from config = data[at] on: "k not in config",
\* config[k] = {} and config[k] need a dict (a number, a bool or None as
\* config raises TypeError, a string raises it at the subscript)
RECURSIVE SetWalk(_, _, _, _)
SetWalk(data, at, keys, value) ==
    IF data[at] # "dict" THEN [error |-> "TypeError", data |-> data]
    ELSE IF Len(keys) = 1
         THEN [error |-> "none", data |-> Graft(data, at \o keys, value)]
    ELSE LET here == at \o <<Head(keys)>>
             made == IF here \notin DOMAIN data
                     THEN Graft(data, here, EmptyDict) ELSE data
         IN  SetWalk(made, here, Tail(keys), value)

\* Config.set(key, value): no except clause
set(data, key, value) == SetWalk(data, <<>>, Split(key), value)

\* Config._deep_update(base_dict, update_dict) for the dicts at path "at",
\* with the keys of update_dict in todo still to come
RECURSIVE deep_update(_, _, _, _)
deep_update(base, update, at, todo) ==
    IF todo = {} THEN base
    ELSE LET key == CHOOSE k \in todo : TRUE
             p == at \o <<key>>
             merged ==
                 IF /\ update[p] = "dict"
                    /\ p \in DOMAIN base
                    /\ base[p] = "dict"
                 THEN deep_update(base, update, p, Children(update, p))
                 ELSE Graft(base, p, Sub(update, p))
         IN  deep_update(merged, update, at, todo \ {key})

\* a configuration file: absent, present but failing to open, present with
\* text json.load rejects, or present with the JSON value json.load returns
NoFile == [state |-> "missing", json |-> NoneValue]
Unreadable == [state |-> "unreadable", json |-> NoneValue]
InvalidJson == [state |-> "invalid", json |-> NoneValue]
Holding(value) == [state |-> "json", json |-> value]

\* the except clause of load_config
LoadClause == {"OSError", "JSONDecodeError"}

\* what the try block of load_config raises, if anything: open() fails,
\* json.load fails, or update_dict.items() is asked of a value that is not
\* a dict
LoadError(file) ==
    CASE file.state = "unreadable" -> "OSError"
      [] file.state = "invalid" -> "JSONDecodeError"
      [] file.state = "json" /\ file.json[<<>>] # "dict" -> "AttributeError"
      [] OTHER -> "none"

\* Config.load_config()
load_config(file) ==
    IF file.state = "missing" THEN [error |-> "none", data |-> DEFAULT_CONFIG]
    ELSE IF LoadError(file) = "none"
         THEN [error |-> "none",
               data |-> deep_update(DEFAULT_CONFIG, file.json, <<>>,
                                    Children(file.json, <<>>))]
    ELSE IF Catches(LoadClause, LoadError(file))
         THEN [error |-> "none", data |-> DEFAULT_CONFIG]
    ELSE [error |-> LoadError(file), data |-> Unbound]

\* ---------------------------------------------------------- get_cpu_temp

\* CollectorClause as a bare "except:"
CollectorClauseBare == {"BaseException"}

\* the except clause of get_gpu_temp, get_gpu_info and get_cpu_temp
\* (dashboard.py:39, 69, 84)
CollectorClause == {"CalledProcessError", "TimeoutExpired", "Exception"}

\* A line of the sensors output is what get_cpu_temp reads of it: whether
\* it contains "Core", whether it contains "+", and the digits of the first
\* "+<digits>" in it (None when re.search finds no match).
Line(core, plus, digits) == [core |-> core, plus |-> plus, digits |-> digits]

\* temperatures the sensors tool prints
SensorTemps == {45, 46}

\* "Core 0: +45.0 C (high = +100.0 C)", "Core 0: +N/A", "Core count: 4",
\* "Package id 0: +45.0 C" and "coretemp-isa-0000"
Lines ==
    {Line(TRUE, TRUE, <<t>>) : t \in SensorTemps}
    \cup {Line(TRUE, TRUE, None), Line(TRUE, FALSE, None)}
    \cup {Line(FALSE, TRUE, <<45>>)}
    \cup {Line(FALSE, FALSE, None)}

\* what subprocess.check_output(["sensors"]) did: returned the text, raised
\* CalledProcessError (non-zero exit) or FileNotFoundError (no such tool)
NoOutput == [status |-> "unrun", lines |-> <<>>]
Printed(lines) == [status |-> "ok", lines |-> lines]
Failed(exc) == [status |-> exc, lines |-> <<>>]

\* the outputs of at most MaxLines lines
Outputs ==
    {Printed(lines) : lines \in UNION {[1..n -> Lines] : n \in 0..MaxLines}}
    \cup {Failed("CalledProcessError"), Failed("FileNotFoundError")}

RECURSIVE Sum(_)
Sum(temps) == IF temps = <<>> THEN 0 ELSE Head(temps) + Sum(Tail(temps))

\* the loop of get_cpu_temp: temps after reading lines
RECURSIVE CoreTemps(_)
CoreTemps(lines) ==
    IF lines = <<>> THEN <<>>
    ELSE LET line == lines[Len(lines)]
             before == CoreTemps(SubSeq(lines, 1, Len(lines) - 1))
         IN  IF line.core /\ line.plus /\ line.digits # None
             THEN Append(before, line.digits[1])
             ELSE before

\* FloorDiv rounding up
FloorDivUp(a, b) == (a + b - 1) \div b

\* a // b for a >= 0 and b > 0
FloorDiv(a, b) == a \div b

\* SystemDashboard.get_cpu_temp() when check_output does what output says;
\* what check_output raises is an Exception, which the except clause handles
get_cpu_temp(output) ==
    IF output.status # "ok" /\ Catches(CollectorClause, output.status)
    THEN None
    ELSE LET temps == CoreTemps(output.lines) IN
         IF temps # <<>> THEN <<FloorDiv(Sum(temps), Len(temps))>> ELSE None

\* what config_ret holds before any method of the Config object is called
NoRet ==
    [op |-> "init", key |-> <<>>, value |-> NoneValue, file |-> NoFile,
     result |-> NoneValue, error |-> "none", sets |-> 0]

\* the module's Config() with no configuration file; nothing has been asked
\* of it or of the sensors tool
InitAside ==
    /\ config_data = load_config(NoFile).data
    /\ config_ret = NoRet
    /\ sensors = NoOutput

\* SystemDashboard.__init__ under any configuration
InitDashboard ==
    /\ max_history_points \in Capacities
    /\ config \in Thresholds
    /\ temp_history = [s \in Series |-> <<>>]
    /\ delivered = [s \in Series |-> <<>>]
    /\ last_call = NoCall
    /\ graph = NoGraph
    /\ steps = <<>>
    /\ gpu_temp = None
    /\ cpu_temp = None
    /\ available_graph_width = 0
    /\ cpu_temp_graph = NoGraph
    /\ gpu_temp_graph = NoGraph
    /\ displayed = <<>>
    /\ interrupted = FALSE
    /\ InitAside

\* a caller (such as the unit tests) that holds the dashboard and calls its
\* methods directly
Init ==
    /\ InitDashboard
    /\ pc = "api"

\* exploration stops where an untrimmed history would pass MaxSamples
WithinSamples(hist) == \A s \in Series : Len(hist[s]) <= MaxSamples

\* SystemDashboard.update_temperature_history(gpu_temp, cpu_temp)
update_temperature_history(gpu, cpu) ==
    /\ WithinSamples(UpdatedHistory(temp_history, gpu, cpu))
    /\ temp_history' = UpdatedHistory(temp_history, gpu, cpu)
    /\ delivered' = Delivered(delivered, gpu, cpu)
    /\ last_call' = UpdateCall(gpu, cpu)
    /\ graph' = NoGraph

\* CallGraph with a renderer that keeps only the window it drew
CallGraphConsuming(temp_type, height, length) ==
    /\ pc = "api"
    /\ graph' = create_temperature_graph(temp_history, temp_type, height, length)
    /\ last_call' = GraphCall(temp_type, height, length)
    /\ temp_history' =
          IF temp_type \in Series
          THEN [temp_history EXCEPT ![temp_type] = Visible(@, length)]
          ELSE temp_history
    /\ UNCHANGED <<aside, interrupted, max_history_points, config, delivered, pc,
                   steps, gpu_temp, cpu_temp, available_graph_width,
                   cpu_temp_graph, gpu_temp_graph, displayed>>

\* SystemDashboard.create_temperature_graph(temp_type, height, length),
\* called directly
CallGraph(temp_type, height, length) ==
    /\ pc = "api"
    /\ graph' = create_temperature_graph(temp_history, temp_type, height, length)
    /\ last_call' = GraphCall(temp_type, height, length)
    /\ UNCHANGED <<aside, interrupted, max_history_points, config, temp_history, delivered, pc,
                   steps, gpu_temp, cpu_temp, available_graph_width,
                   cpu_temp_graph, gpu_temp_graph, displayed>>

\* update_temperature_history called directly
Update ==
    /\ pc = "api"
    /\ \E g \in Readings, c \in Readings : update_temperature_history(g, c)
    /\ UNCHANGED <<aside, interrupted, max_history_points, config, pc, steps, gpu_temp,
                   cpu_temp, available_graph_width, cpu_temp_graph,
                   gpu_temp_graph, displayed>>

Graph == \E t \in TempTypes, h \in Heights, w \in Widths : CallGraph(t, h, w)

Next ==
    \/ Update
    \/ Graph

Spec == Init /\ [][Next]_vars

\* ------------------------------------------------- run / create_dashboard
\* create_temperature_graph(..., height=6, ...)     dashboard.py:302, 316
GraphHeight == 6
\* available_graph_width = max(50, console_width - 32)    dashboard.py:284
MinGraphWidth == 50
ReservedWidth == 32

\* the steps of one cycle, in the order of the statements of create_dashboard
\* followed by the body of run's loop
CycleOrder == <<"collect", "update", "graph_cpu", "graph_gpu", "display">>

\* NextPc with the history update moved behind the two graphs
NextPcGraphFirst(p) ==
    CASE p = "collect" -> "graph_cpu"
      [] p = "graph_cpu" -> "graph_gpu"
      [] p = "graph_gpu" -> "update"
      [] p = "update" -> "display"
      [] p = "display" -> "sleep"
      [] p = "sleep" -> "collect"

\* the statement that follows p
NextPc(p) ==
    CASE p = "collect" -> "update"
      [] p = "update" -> "graph_cpu"
      [] p = "graph_cpu" -> "graph_gpu"
      [] p = "graph_gpu" -> "display"
      [] p = "display" -> "sleep"
      [] p = "sleep" -> "collect"

\* run() has just been called on a fresh dashboard
InitRun ==
    /\ InitDashboard
    /\ pc = "collect"

\* create_dashboard: get_gpu_temp() ... get_disk_info()
Collect ==
    /\ pc = "collect"
    /\ gpu_temp' \in Readings
    /\ cpu_temp' \in Readings
    /\ steps' = <<"collect">>
    /\ pc' = NextPc(pc)
    /\ UNCHANGED <<aside, interrupted, max_history_points, config, temp_history, delivered,
                   last_call, graph, available_graph_width, cpu_temp_graph,
                   gpu_temp_graph, displayed>>

\* create_dashboard: self.update_temperature_history(gpu_temp, cpu_temp)
DashboardUpdate ==
    /\ pc = "update"
    /\ update_temperature_history(gpu_temp, cpu_temp)
    /\ steps' = Append(steps, "update")
    /\ pc' = NextPc(pc)
    /\ UNCHANGED <<aside, interrupted, max_history_points, config, gpu_temp, cpu_temp,
                   available_graph_width, cpu_temp_graph, gpu_temp_graph,
                   displayed>>

\* create_dashboard: available_graph_width and the CPU graph
GraphCpu ==
    /\ pc = "graph_cpu"
    /\ \E console_width \in ConsoleWidths :
          /\ available_graph_width' = Max(MinGraphWidth, console_width - ReservedWidth)
          /\ cpu_temp_graph' = create_temperature_graph(
                 temp_history, "cpu", GraphHeight, available_graph_width')
          /\ last_call' = GraphCall("cpu", GraphHeight, available_graph_width')
    /\ graph' = cpu_temp_graph'
    /\ steps' = Append(steps, "graph_cpu")
    /\ pc' = NextPc(pc)
    /\ UNCHANGED <<aside, interrupted, max_history_points, config, temp_history, delivered,
                   gpu_temp, cpu_temp, gpu_temp_graph, displayed>>

\* create_dashboard: the GPU graph
GraphGpu ==
    /\ pc = "graph_gpu"
    /\ gpu_temp_graph' = create_temperature_graph(
           temp_history, "gpu", GraphHeight, available_graph_width)
    /\ last_call' = GraphCall("gpu", GraphHeight, available_graph_width)
    /\ graph' = gpu_temp_graph'
    /\ steps' = Append(steps, "graph_gpu")
    /\ pc' = NextPc(pc)
    /\ UNCHANGED <<aside, interrupted, max_history_points, config, temp_history, delivered,
                   gpu_temp, cpu_temp, available_graph_width, cpu_temp_graph,
                   displayed>>

\* run: Live(self.create_dashboard(), ...) the first time,
\* live.update(self.create_dashboard()) afterwards
Display ==
    /\ pc = "display"
    /\ displayed' = <<cpu_temp_graph, gpu_temp_graph>>
    /\ steps' = Append(steps, "display")
    /\ pc' = NextPc(pc)
    /\ UNCHANGED <<aside, interrupted, max_history_points, config, temp_history, delivered,
                   last_call, graph, gpu_temp, cpu_temp, available_graph_width,
                   cpu_temp_graph, gpu_temp_graph>>

\* run: time.sleep(config.refresh_rate)
Sleep ==
    /\ pc = "sleep"
    /\ pc' = NextPc(pc)
    /\ UNCHANGED <<aside, interrupted, max_history_points, config, temp_history, delivered,
                   last_call, graph, steps, gpu_temp, cpu_temp,
                   available_graph_width, cpu_temp_graph, gpu_temp_graph,
                   displayed>>

\* the except clause of run (dashboard.py:481)
RunClause == {"KeyboardInterrupt"}

\* the first except clause of main (main.py:16)
MainClause == {"KeyboardInterrupt"}

Running == {"collect", "update", "graph_cpu", "graph_gpu", "display", "sleep"}

\* where a KeyboardInterrupt raised at p leaves the program: a collector
\* that handled it would return None and the cycle would go on; run's
\* handler prints "Dashboard stopped." and run returns; otherwise the
\* exception leaves run
InterruptedPc(p) ==
    IF p = "collect" /\ Catches(CollectorClause, "KeyboardInterrupt") THEN p
    ELSE IF Catches(RunClause, "KeyboardInterrupt") THEN "stopped"
    ELSE "raised"

\* KeyboardInterrupt delivered while run() is anywhere in a cycle
Interrupt ==
    /\ pc \in Running
    /\ ~interrupted
    /\ interrupted' = TRUE
    /\ pc' = InterruptedPc(pc)
    /\ UNCHANGED <<aside, max_history_points, config, temp_history, delivered,
                   last_call, graph, steps, gpu_temp, cpu_temp,
                   available_graph_width, cpu_temp_graph, gpu_temp_graph,
                   displayed>>

\* main: run() has returned and main returns (exit status 0), or the
\* KeyboardInterrupt reached main, whose handler calls sys.exit(0); an
\* exception main's first clause does not handle ends in sys.exit(1)
Exit ==
    /\ pc \in {"stopped", "raised"}
    /\ pc' = IF pc = "stopped" \/ Catches(MainClause, "KeyboardInterrupt")
             THEN "exit_0" ELSE "exit_1"
    /\ UNCHANGED <<aside, interrupted, max_history_points, config, temp_history,
                   delivered, last_call, graph, steps, gpu_temp, cpu_temp,
                   available_graph_width, cpu_temp_graph, gpu_temp_graph,
                   displayed>>

NextRun ==
    \/ Collect
    \/ DashboardUpdate
    \/ GraphCpu
    \/ GraphGpu
    \/ Display
    \/ Sleep
    \/ Interrupt
    \/ Exit

SpecRun == InitRun /\ [][NextRun]_vars

\* ------------------------------------------------------ calls of Config

\* the state of the dashboard, which no method of Config writes
dashboard ==
    <<max_history_points, config, temp_history, delivered, last_call, graph,
      pc, steps, gpu_temp, cpu_temp, available_graph_width, cpu_temp_graph,
      gpu_temp_graph, displayed, interrupted>>

\* the keys handed to get and set: "refresh_rate", "display.show_gpu",
\* "refresh_rate.unit", "extra", "extra.unit", "display." and ""
Keys ==
    {<<"refresh_rate">>,
     <<"display", ".", "show_gpu">>,
     <<"refresh_rate", ".", "unit">>,
     <<"extra">>,
     <<"extra", ".", "unit">>,
     <<"display", ".">>,
     <<>>}

\* the values handed to set: a number and {}
Values == {Scalar("2.5"), EmptyDict}

\* the defaults handed to get: None and "default"
Defaults == {NoneValue, Scalar("default")}

\* {"refresh_rate": 3.0, "display": {"show_gpu": false}}
PartialFile ==
    (<<>> :> "dict")
    @@ (<<Name("refresh_rate")>> :> "3.0")
    @@ (<<Name("display")>> :> "dict")
    @@ (<<Name("display"), Name("show_gpu")>> :> "False")

\* {"display": 5}
SectionAsNumber == (<<>> :> "dict") @@ (<<Name("display")>> :> "5")

\* {"refresh_rate": {"unit": "s"}}
NumberAsSection ==
    (<<>> :> "dict")
    @@ (<<Name("refresh_rate")>> :> "dict")
    @@ (<<Name("refresh_rate"), Name("unit")>> :> "s")

\* {"extra": {"unit": "s"}}
ExtraFile ==
    (<<>> :> "dict")
    @@ (<<Name("extra")>> :> "dict")
    @@ (<<Name("extra"), Name("unit")>> :> "s")

\* the configuration files a Config is constructed over
Files ==
    {NoFile, Unreadable, InvalidJson, Holding(EmptyDict), Holding(PartialFile),
     Holding(SectionAsNumber), Holding(NumberAsSection), Holding(ExtraFile),
     Holding(Scalar("5"))}

InitConfig ==
    /\ InitDashboard
    /\ max_history_points = MaxCap
    /\ config = <<70, 80>>
    /\ pc = "config"

\* config = Config(config_file)
Load(file) ==
    /\ config_ret.op = "init"
    /\ config_data' = load_config(file).data
    /\ config_ret' = [NoRet EXCEPT !.op = "load", !.file = file,
                                   !.error = load_config(file).error]
    /\ UNCHANGED <<dashboard, sensors>>

\* config.set(key, value)
Set(key, value) ==
    /\ config_data # Unbound
    /\ config_ret.sets < MaxSets
    /\ config_data' = set(config_data, key, value).data
    /\ config_ret' = [NoRet EXCEPT !.op = "set", !.key = key, !.value = value,
                                   !.error = set(config_data, key, value).error,
                                   !.sets = config_ret.sets + 1]
    /\ UNCHANGED <<dashboard, sensors>>

\* config.get(key, default)
Get(key, default) ==
    /\ config_data # Unbound
    /\ config_ret' = [NoRet EXCEPT !.op = "get", !.key = key, !.value = default,
                                   !.result = get(config_data, key, default).value,
                                   !.error = get(config_data, key, default).error,
                                   !.sets = config_ret.sets]
    /\ UNCHANGED <<dashboard, sensors, config_data>>

LoadFile == \E file \in Files : Load(file)

SetKey == \E key \in Keys, value \in Values : Set(key, value)

GetKey == \E key \in Keys, default \in Defaults : Get(key, default)

NextConfig ==
    \/ LoadFile
    \/ SetKey
    \/ GetKey

SpecConfig == InitConfig /\ [][NextConfig]_vars

\* --------------------------------------------------- calls of get_cpu_temp

InitCpu ==
    /\ InitDashboard
    /\ max_history_points = MaxCap
    /\ config = <<70, 80>>
    /\ pc = "sensors"

\* cpu_temp = self.get_cpu_temp(), whatever the sensors tool does
GetCpuTemp ==
    /\ pc = "sensors"
    /\ \E output \in Outputs :
          /\ sensors' = output
          /\ cpu_temp' = get_cpu_temp(output)
    /\ UNCHANGED <<max_history_points, config, temp_history, delivered,
                   last_call, graph, pc, steps, gpu_temp,
                   available_graph_width, cpu_temp_graph, gpu_temp_graph,
                   displayed, interrupted, config_data, config_ret>>

NextCpu == GetCpuTemp

SpecCpu == InitCpu /\ [][NextCpu]_vars

\* ------------------------------------------ graphs of a long history

\* "max_history_points": 100 in DEFAULT_CONFIG
DefaultCapacity == 100

\* n samples of 70 degrees
Steady(n) == [k \in 1..n |-> <<current_time, 70>>]

\* the lengths asked of create_temperature_graph around ten columns
RulerWidths == {0, 1, 10, 11, 20}

\* a dashboard under the default capacity that has taken eight or nine gpu
\* samples and no cpu sample
InitRuler ==
    /\ max_history_points = DefaultCapacity
    /\ config = <<70, 80>>
    /\ \E n \in {8, 9} :
          /\ temp_history = [s \in Series |-> IF s = "gpu" THEN Steady(n) ELSE <<>>]
          /\ delivered = [s \in Series |-> IF s = "gpu" THEN Steady(n) ELSE <<>>]
    /\ last_call = NoCall
    /\ graph = NoGraph
    /\ pc = "api"
    /\ steps = <<>>
    /\ gpu_temp = None
    /\ cpu_temp = None
    /\ available_graph_width = 0
    /\ cpu_temp_graph = NoGraph
    /\ gpu_temp_graph = NoGraph
    /\ displayed = <<>>
    /\ interrupted = FALSE
    /\ InitAside

\* update_temperature_history(gpu, None), while the history is shorter than
\* MaxRulerSamples
UpdateGpu ==
    /\ pc = "api"
    /\ Len(temp_history["gpu"]) < MaxRulerSamples
    /\ \E t \in Temps :
          /\ temp_history' = UpdatedHistory(temp_history, <<t>>, None)
          /\ delivered' = Delivered(delivered, <<t>>, None)
          /\ last_call' = UpdateCall(<<t>>, None)
    /\ graph' = NoGraph
    /\ UNCHANGED <<aside, interrupted, max_history_points, config, pc, steps,
                   gpu_temp, cpu_temp, available_graph_width, cpu_temp_graph,
                   gpu_temp_graph, displayed>>

\* create_temperature_graph("gpu", height, length)
GraphGpuWide == \E h \in {0, 1}, w \in RulerWidths : CallGraph("gpu", h, w)

NextRuler ==
    \/ UpdateGpu
    \/ GraphGpuWide

SpecRuler == InitRuler /\ [][NextRuler]_vars

\* ------------------------------------------------------------ properties
Last(seq) == seq[Len(seq)]

IsPrefix(a, b) == Len(a) <= Len(b) /\ a = SubSeq(b, 1, Len(a))

\* the last call was create_temperature_graph on a series with two or more
\* samples, so that graph holds a grid and a summary
GridShown ==
    /\ last_call.op = "graph"
    /\ last_call.temp_type \in Series
    /\ Len(temp_history[last_call.temp_type]) >= 2

\* the history the last create_temperature_graph was drawn from
Drawn == temp_history[last_call.temp_type]

\* the temperature of the sample drawn in column c of a row of k cells: the
\* columns are the last k samples in arrival order
ColumnTemp(k, c) == Drawn[Len(Drawn) - k + c][2]

Flat(history) == \A k \in 1..Len(history) : history[k][2] = history[1][2]

\* C1 (as claimed): once more than max_history_points non-null readings have
\* been delivered to a series, the series holds exactly max_history_points
\* samples, the last ones delivered, in arrival order.
C1_KeepsLastC ==
    \A s \in Series :
        Len(delivered[s]) > max_history_points
            => /\ Len(temp_history[s]) = max_history_points
               /\ temp_history[s] = LastN(delivered[s], max_history_points)

\* C2 (as claimed): for every non-negative max_history_points each series
\* holds at most max_history_points samples in every reachable state.
C2_WithinCapacity ==
    \A s \in Series : Len(temp_history[s]) <= max_history_points

\* C3: an update_temperature_history call whose reading for a series is None
\* leaves that series exactly as it was, whatever the other reading is.
C3_NullReadingLeavesSeries ==
    [][ last_call'.op = "update"
          => /\ last_call'.gpu_temp = None
                  => temp_history'["gpu"] = temp_history["gpu"]
             /\ last_call'.cpu_temp = None
                  => temp_history'["cpu"] = temp_history["cpu"] ]_vars

C3_Witness ==
    /\ last_call.op = "update"
    /\ last_call.gpu_temp = None
    /\ last_call.cpu_temp # None
    /\ Len(temp_history["gpu"]) = 1
    /\ Len(temp_history["cpu"]) = 2

\* C4: create_temperature_graph chooses its mode by the number of samples
\* alone: none (or a series the store does not have) gives the "No data
\* available" text without a grid, one gives "Collecting data..." without a
\* grid, two or more give a grid of height rows and a summary, for every
\* height and length.
C4_ModeBySampleCount ==
    last_call.op = "graph" =>
        LET t == last_call.temp_type
            n == IF t \in Series THEN Len(temp_history[t]) ELSE 0
        IN  /\ n = 0 => graph = NoDataText
            /\ n = 1 => graph = CollectingText
            /\ n >= 2 => /\ graph.kind = "graph"
                         /\ Len(graph.rows) = last_call.height
                         /\ graph.summary.color \in {"green", "yellow", "red"}
                         /\ graph.text = ""

C4_Witness ==
    /\ last_call.op = "graph"
    /\ last_call.temp_type = "cpu"
    /\ Len(temp_history["cpu"]) = 1
    /\ Len(temp_history["gpu"]) = 2
    /\ graph = CollectingText

\* C5 (as claimed): for a flat series every row of the grid has a filled
\* cell in every column.
C5_FlatFullyLit ==
    (GridShown /\ Flat(Drawn)) =>
        \A r \in 1..Len(graph.rows) :
            \A c \in 1..Len(graph.rows[r].cells) :
                graph.rows[r].cells[c].ch = "block"

\* C5 (amended): for a flat series exactly the bottom row is lit: the last
\* row has a filled cell in every column and every row above it has none;
\* every row has at least one column.
C5_FlatBottomRowLit ==
    (GridShown /\ Flat(Drawn)) =>
        \A r \in 1..Len(graph.rows) :
            /\ Len(graph.rows[r].cells) >= 1
            /\ \A c \in 1..Len(graph.rows[r].cells) :
                 (graph.rows[r].cells[c].ch = "block") <=> (r = Len(graph.rows))

C5_Witness ==
    /\ GridShown
    /\ Flat(Drawn)
    /\ last_call.height = 3
    /\ Len(graph.rows) = 3
    /\ graph.rows[1].cells[1].ch = "space"
    /\ graph.rows[3].cells[1].ch = "block"

\* C6: a filled cell drawn for a sample of value t is red when t >= critical,
\* else yellow when t >= warning, else green, in every row; the boundaries
\* are inclusive (with warning 70 and critical 80, 70 is yellow and 80 red).
C6_CellColour ==
    GridShown =>
        \A r \in 1..Len(graph.rows) :
            LET cells == graph.rows[r].cells IN
            \A c \in 1..Len(cells) :
                LET t == ColumnTemp(Len(cells), c) IN
                cells[c].ch = "block" =>
                    /\ t >= config[2] => cells[c].style = "red"
                    /\ (t < config[2] /\ t >= config[1])
                          => cells[c].style = "yellow"
                    /\ (t < config[2] /\ t < config[1])
                          => cells[c].style = "green"
                    /\ (config = <<70, 80>> /\ t = 70)
                          => cells[c].style = "yellow"
                    /\ (config = <<70, 80>> /\ t = 80)
                          => cells[c].style = "red"

C6_Witness ==
    /\ GridShown
    /\ config = <<70, 80>>
    /\ Len(graph.rows) >= 1
    /\ LET cells == graph.rows[Len(graph.rows)].cells IN
         /\ Len(cells) = 2
         /\ ColumnTemp(2, 1) = 70
         /\ ColumnTemp(2, 2) = 80
         /\ cells[1] = [ch |-> "block", style |-> "yellow"]
         /\ cells[2] = [ch |-> "block", style |-> "red"]

\* C7 (as claimed): every row of the grid has exactly min(length, n) cells,
\* for every length.
C7_RowWidth ==
    GridShown =>
        \A r \in 1..Len(graph.rows) :
            Len(graph.rows[r].cells) = Min(last_call.length, Len(Drawn))

\* C8: the summary's "Current" value is the most recent non-null reading
\* delivered to the series, for every height and length.
C8_CurrentIsLatest ==
    GridShown => graph.summary.current = Last(delivered[last_call.temp_type])[2]

C8_Witness ==
    /\ GridShown
    /\ max_history_points = 2
    /\ Len(delivered[last_call.temp_type]) = 3
    /\ delivered[last_call.temp_type][1][2] = 80
    /\ graph.summary.current = 70
    /\ last_call.length = 1

\* C9: create_temperature_graph only reads the history: the call leaves both
\* series as they were, and repeating the call with the same arguments and
\* no update in between returns the same Text.
C9_GraphIsPureRead ==
    [][ last_call'.op = "graph"
          => /\ temp_history' = temp_history
             /\ last_call' = last_call => graph' = graph ]_vars

C9_Witness ==
    /\ GridShown
    /\ last_call.length = 1
    /\ Len(Drawn) = 2
    /\ Len(graph.rows) = 3
    /\ Len(graph.rows[1].cells) = 1

\* the reading create_dashboard collected for a series in this cycle
Collected(s) == IF s = "gpu" THEN gpu_temp ELSE cpu_temp

\* create_dashboard has passed its history update and is at or behind its
\* first graph
Rendering == pc \in {"graph_cpu", "graph_gpu", "display", "sleep"}

\* the cycle's steps run in the order collect, update, graph, graph, display
StepsInOrder == IsPrefix(steps, CycleOrder)

\* the history holds the sample this cycle appended
HoldsCollected(s) ==
    Collected(s) # None
        => /\ temp_history[s] # <<>>
           /\ Last(temp_history[s]) = <<current_time, Collected(s)[1]>>

\* what Live shows was drawn from the history as the update left it
ShowsCurrentHistory ==
    pc = "sleep" =>
        displayed = << create_temperature_graph(temp_history, "cpu",
                          GraphHeight, available_graph_width),
                       create_temperature_graph(temp_history, "gpu",
                          GraphHeight, available_graph_width) >>

Rerun == UpdatedHistory(temp_history, last_call.gpu_temp, last_call.cpu_temp)

\* the reading the last update_temperature_history call had for a series
Given(s) == IF s = "gpu" THEN last_call.gpu_temp ELSE last_call.cpu_temp

C12_InterruptStopsLoop ==
    [][ /\ (interrupted' /\ ~interrupted) => pc' = "stopped"
        /\ interrupted =>
             /\ pc' = "exit_0"
             /\ temp_history' = temp_history
             /\ last_call' = last_call
             /\ graph' = graph
             /\ displayed' = displayed
        /\ pc' \notin Running => interrupted'
        /\ pc' # "exit_1" ]_vars

C12_Witness ==
    /\ pc = "exit_0"
    /\ interrupted
    /\ steps = <<"collect", "update">>
    /\ gpu_temp = <<70>>
    /\ Len(temp_history["gpu"]) = 2
    /\ displayed # <<>>
    /\ displayed[2] = CollectingText

\* C13: after set(key, v), for every dot-notation key and value, set has
\* not faulted and get(key) returns v; get of a key that is not in the
\* configuration returns the supplied default.
C13_SetGetRoundTrip ==
    /\ config_ret.op = "set" =>
         /\ config_ret.error = "none"
         /\ get(config_data, config_ret.key, NoneValue) =
                [error |-> "none", value |-> config_ret.value]
    /\ (config_ret.op = "get" /\ Split(config_ret.key) \notin DOMAIN config_data) =>
         /\ config_ret.error = "none"
         /\ config_ret.result = config_ret.value

\* C14: a loaded file is merged over the defaults at every nesting level:
\* every key of the file holds the file's value, every default key the file
\* does not have keeps its default, and a file that cannot be read or is not
\* JSON gives exactly the defaults.
C14_MergeOverDefaults ==
    config_ret.op = "load" =>
        /\ config_ret.error = "none"
        /\ IF config_ret.file.state = "json"
           THEN /\ \A p \in DOMAIN config_ret.file.json \ {<<>>} :
                       /\ p \in DOMAIN config_data
                       /\ config_data[p] = config_ret.file.json[p]
                /\ \A p \in DOMAIN DEFAULT_CONFIG \ DOMAIN config_ret.file.json :
                       /\ p \in DOMAIN config_data
                       /\ config_data[p] = DEFAULT_CONFIG[p]
           ELSE config_data = DEFAULT_CONFIG

\* the lines get_cpu_temp takes a core temperature from
CoreLines ==
    {i \in 1..Len(sensors.lines) :
        /\ sensors.lines[i].core
        /\ sensors.lines[i].plus
        /\ sensors.lines[i].digits # None}

RECURSIVE Total(_)
Total(is) ==
    IF is = {} THEN 0
    ELSE LET i == CHOOSE j \in is : TRUE
         IN  sensors.lines[i].digits[1] + Total(is \ {i})

\* C15 as stated: get_cpu_temp returns the arithmetic mean of the core
\* temperatures, and None when there is no core line or the tool fails.
C15_ArithmeticMean ==
    sensors.status # "unrun" =>
        IF CoreLines = {} THEN cpu_temp = None
        ELSE /\ cpu_temp # None
             /\ cpu_temp[1] * Cardinality(CoreLines) = Total(CoreLines)

\* C15: get_cpu_temp returns the arithmetic mean of the core temperatures
\* rounded down to an integer (sum // count), and None when there is no
\* core line or the tool fails.
C15_FloorOfMean ==
    sensors.status # "unrun" =>
        IF CoreLines = {} THEN cpu_temp = None
        ELSE /\ cpu_temp # None
             /\ cpu_temp[1] * Cardinality(CoreLines) <= Total(CoreLines)
             /\ Total(CoreLines) < (cpu_temp[1] + 1) * Cardinality(CoreLines)

C15_Witness ==
    /\ sensors = Printed(<<Line(FALSE, FALSE, None), Line(TRUE, TRUE, <<45>>),
                           Line(TRUE, TRUE, <<46>>)>>)
    /\ cpu_temp = <<45>>

\* the lowest and the highest temperature among all the samples retained
\* of the series drawn, and the span the rows are laid over
Lowest == CHOOSE t \in {Drawn[k][2] : k \in 1..Len(Drawn)} :
              \A k \in 1..Len(Drawn) : t <= Drawn[k][2]

Highest == CHOOSE t \in {Drawn[k][2] : k \in 1..Len(Drawn)} :
               \A k \in 1..Len(Drawn) : t >= Drawn[k][2]

Span == IF Highest = Lowest THEN 1 ELSE Highest - Lowest

\* height times the threshold of the r-th row from the top (r = 1 is the
\* code's row 0): height * (minVal + range * (height - r) / height)
Band(r) == Lowest * Len(graph.rows) + Span * (Len(graph.rows) - r)

\* C16: the summary's Min and Max and the scale of the rows come from all
\* the retained samples of the series, not from the visible window: a value
\* that has scrolled out of the window still sets the row labels, the row
\* thresholds and the reported Min and Max.
C16_ScaleFromRetained ==
    GridShown =>
        /\ graph.summary.min = Lowest
        /\ graph.summary.max = Highest
        /\ \A r \in 1..Len(graph.rows) :
             /\ graph.rows[r].label = RoundHalfEven(Band(r), Len(graph.rows))
             /\ \A c \in 1..Len(graph.rows[r].cells) :
                  (graph.rows[r].cells[c].ch = "block") <=>
                      (ColumnTemp(Len(graph.rows[r].cells), c) * Len(graph.rows)
                           >= Band(r))

C16_Witness ==
    /\ GridShown
    /\ Drawn = <<<<current_time, 80>>, <<current_time, 70>>>>
    /\ last_call.length = 1
    /\ last_call.height = 3
    /\ graph.summary.max = 80
    /\ graph.rows[1].label = 77
    /\ graph.rows[1].cells = <<[ch |-> "space", style |-> "none"]>>

\* C17: the cell of row r (0 at the top) and a visible sample is filled
\* exactly when the sample's value is at least
\* minVal + range * (height - r - 1) / height; these thresholds strictly
\* decrease from the top row to the bottom row, whose threshold is minVal,
\* so the top row is lit only by the samples that reach the top band.
C17_FilledIffReachesBand ==
    GridShown =>
        LET height == Len(graph.rows) IN
        /\ \A r \in 0..(height - 1) :
             LET cells == graph.rows[r + 1].cells IN
             \A c \in 1..Len(cells) :
                (cells[c].ch # "space") <=>
                    (ColumnTemp(Len(cells), c) * height
                        >= graph.summary.min * height
                           + Span * (height - r - 1))
        /\ \A r \in 1..(height - 1) : Band(r) > Band(r + 1)
        /\ height >= 1 =>
             /\ Band(height) = graph.summary.min * height
             /\ graph.rows[height].label = graph.summary.min

C17_Witness ==
    /\ GridShown
    /\ Drawn = <<<<current_time, 70>>, <<current_time, 80>>>>
    /\ last_call.height = 3
    /\ last_call.length = 2
    /\ graph.rows[1].cells[1].ch = "space"
    /\ graph.rows[1].cells[2].ch = "block"
    /\ graph.rows[3].cells[1].ch = "block"

\* C20: in a grid of height >= 1 every column is a bar rising from the
\* bottom: its cell in the bottom row is filled, and below a filled cell
\* every cell is filled, so no column has a gap and none is empty.
C20_BarsRiseFromBottom ==
    (GridShown /\ last_call.height >= 1) =>
        LET height == Len(graph.rows)
            width == Len(graph.rows[height].cells)
        IN  /\ height = last_call.height
            /\ width >= 1
            /\ \A r \in 1..height : Len(graph.rows[r].cells) = width
            /\ \A c \in 1..width :
                 /\ graph.rows[height].cells[c].ch = "block"
                 /\ \A r \in 1..height, below \in 1..height :
                      (below > r /\ graph.rows[r].cells[c].ch = "block")
                          => graph.rows[below].cells[c].ch = "block"

C20_Witness ==
    /\ GridShown
    /\ last_call.height = 3
    /\ Len(graph.rows[1].cells) = 2
    /\ \A r \in 1..3 : graph.rows[r].cells[1].ch = "block"
    /\ graph.rows[1].cells[2].ch = "space"
    /\ graph.rows[2].cells[2].ch = "space"
    /\ graph.rows[3].cells[2].ch = "block"

\* C19: the summary colours the current value as the grid colours a filled
\* cell of that value, for every pair of thresholds the configuration
\* supplies, warning < critical or not.
C19_SummaryColourIsCellColour ==
    GridShown =>
        /\ graph.summary.current = Last(Drawn)[2]
        /\ \A r \in 1..Len(graph.rows) :
             LET cells == graph.rows[r].cells IN
             \A c \in 1..Len(cells) :
                (/\ cells[c].ch = "block"
                 /\ ColumnTemp(Len(cells), c) = graph.summary.current)
                    => graph.summary.color = cells[c].style

\* C18: the tick ruler is drawn exactly when the series holds 10 or more
\* samples; it has one position per visible column, min(width, n) of them,
\* with a tick where the index is a multiple of 10 and filler elsewhere, and
\* its label is the number n of samples retained.
C18_RulerPerVisibleColumn ==
    GridShown =>
        LET n == Len(Drawn)
            ticks == graph.timeline.ticks
        IN  /\ graph.timeline.shown <=> n >= 10
            /\ graph.timeline.shown =>
                 /\ Len(ticks) = Min(last_call.length, n)
                 /\ \A r \in 1..Len(graph.rows) :
                        Len(ticks) = Len(graph.rows[r].cells)
                 /\ \A p \in 1..Len(ticks) :
                        ticks[p] = IF (p - 1) % 10 = 0 THEN "tick" ELSE "dash"
                 /\ graph.timeline.label = n

====
